---- MODULE Spec2Model ----
(***************************************************************************)
(* A model of src/scScope.py: the recurrent imputing autoencoder scScope   *)
(* (forward) and its trainer scScopeTrainer (one-hot batch indicator,      *)
(* on_training_begin, on_training_loop, on_epoch_end, loss, predict).      *)
(*                                                                         *)
(* Spec        the life cycle of one model instance and its trainer        *)
(* SpecOneHot  the batch indicator built by __init__ and by predict        *)
(* SpecMerge   the imputation merge of forward, rounds i >= 1              *)
(* SpecLoss    the mask and the summed loss of scScopeTrainer.loss         *)
(***************************************************************************)
EXTENDS Integers, Sequences, FiniteSets, Bags, TLC

VARIABLES
    t,                \* scScope.t, the number of rounds
    imputation_model, \* scScope.imputation_model, absent until forward sets it
    constructed,      \* how many imputation subnetworks have been constructed
    training,         \* nn.Module.training of the model
    optimizer,        \* scScopeTrainer.optimizer and the parameters it holds
    steps,            \* optimizer.step() calls so far
    epoch,            \* Trainer.epoch
    num_epochs,       \* Trainer.num_epochs
    frequency_stats,  \* Trainer.frequency_stats
    val_batches,      \* batches of the validation split
    pc,               \* where the trainer is: new, idle, validate, done
    valLeft,          \* validation batches still to run in on_epoch_end
    forwards,         \* forward calls so far
    last,             \* the last hook that ran, and what it did
    fn,               \* the pure function applied (SpecOneHot, SpecMerge, SpecLoss)
    args,             \* its inputs
    out               \* its results

lifeVars == <<t, imputation_model, constructed, training, optimizer, steps, epoch,
              num_epochs, frequency_stats, val_batches, pc, valLeft, forwards, last>>
pureVars == <<fn, args, out>>
vars == <<lifeVars, pureVars>>

(***************************************************************************)
(* Bounds                                                                  *)
(***************************************************************************)
MaxT == 3
MaxEpochs == 2
MaxFreq == 2
MaxValBatches == 2
MaxForward == 4

(***************************************************************************)
(* scScope: the module tree and forward                                    *)
(***************************************************************************)
Param(module, id) == [module |-> module, id |-> id]

\* The submodules scScope.__init__ registers: the AutoEncoder's stacks and the
\* batch effect layer.
BaseParameters ==
    { Param(m, 0) : m \in {"encoder", "latent_layer", "decoder", "output_layer",
                           "batch_effect_layer"} }

NoModule == [present |-> FALSE, id |-> 0, training |-> FALSE]

\* nn.Sequential(impute_layer1, impute_layer2): a fresh module with freshly
\* initialised weights; a new nn.Module starts in training mode.
NewImputation(n) == [present |-> TRUE, id |-> n, training |-> TRUE]

\* model.parameters(): the registered submodules, the imputation model among
\* them once forward has assigned it.
Parameters(im) ==
    BaseParameters \cup (IF im.present THEN {Param("imputation_model", im.id)} ELSE {})

\* model.train(mode): sets the flag on the model and on every registered
\* submodule.
SetMode(im, mode) == IF im.present THEN [im EXCEPT !.training = mode] ELSE im

ConstructsAtMut(i) == i = 0
\* The branch of forward that builds the imputation model: not round 0, and i == 1.
ConstructsAt(i) == i # 0 /\ i = 1

\* One pass of the loop `for i in range(self.t)`, from round i on. m carries the
\* model's attribute, the construction count, the instances line 66 called, and
\* the two result lists.
RECURSIVE ForwardRounds(_, _, _)
ForwardRounds(i, tt, m) ==
    IF i >= tt THEN m
    ELSE LET m1 == IF ConstructsAt(i)
                   THEN [m EXCEPT !.imputation_model = NewImputation(m.constructed + 1),
                                  !.constructed = m.constructed + 1,
                                  !.built = Append(m.built, i)]
                   ELSE m
             m2 == IF i # 0
                   THEN [m1 EXCEPT !.used = Append(m1.used, m1.imputation_model)]
                   ELSE m1
             m3 == [m2 EXCEPT !.output_list = Append(m2.output_list, i),
                              !.latent_features_list = Append(m2.latent_features_list, i)]
         IN  ForwardRounds(i + 1, tt, m3)

\* scScope.forward on the model's current state.
Forward(tt, im, cnt) ==
    ForwardRounds(0, tt, [imputation_model |-> im, constructed |-> cnt,
                          built |-> <<>>, used |-> <<>>,
                          output_list |-> <<>>, latent_features_list |-> <<>>])

\* What forward returns: two Python lists and the batch correction tensor.
ForwardResult(m) ==
    [output_layer |-> [kind |-> "list", len |-> Len(m.output_list)],
     latent_layer |-> [kind |-> "list", len |-> Len(m.latent_features_list)],
     batch_removal_layer |-> [kind |-> "tensor", len |-> 1]]

(***************************************************************************)
(* scScopeTrainer: the hooks                                               *)
(***************************************************************************)
NoOptimizer == [built |-> FALSE, params |-> {}]

NoLast == [op |-> "none", ran |-> FALSE, epoch |-> 0, built |-> <<>>, used |-> <<>>,
           outcome |-> "none", latents |-> 0, modeBefore |-> TRUE, stepsBefore |-> 0]

\* A model as constructed with the default t and an untouched trainer: the state
\* the pure computations below run beside.
Parked ==
    /\ t = 2 /\ imputation_model = NoModule /\ constructed = 0 /\ training = TRUE
    /\ optimizer = NoOptimizer /\ steps = 0 /\ epoch = 0 /\ num_epochs = 1
    /\ frequency_stats = 1 /\ val_batches = 0 /\ pc = "new" /\ valLeft = 0
    /\ forwards = 0 /\ last = NoLast

NoCall == fn = "none" /\ args = <<>> /\ out = <<>>

Init ==
    /\ t \in 1..MaxT
    /\ imputation_model = NoModule
    /\ constructed = 0
    /\ training = TRUE
    /\ optimizer = NoOptimizer
    /\ steps = 0
    /\ epoch = 0
    /\ num_epochs \in 1..MaxEpochs
    /\ frequency_stats \in 1..MaxFreq
    /\ val_batches \in 0..MaxValBatches
    /\ pc = "new"
    /\ valLeft = 0
    /\ forwards = 0
    /\ last = NoLast
    /\ NoCall

\* The driver starts (or restarts) training: on_training_begin builds Adam over
\* model.parameters() as they are now.
on_training_begin ==
    /\ pc \in {"new", "done"}
    /\ optimizer' = [built |-> TRUE, params |-> Parameters(imputation_model)]
    /\ epoch' = 0
    /\ pc' = "idle"
    /\ last' = [NoLast EXCEPT !.op = "on_training_begin", !.ran = TRUE]
    /\ UNCHANGED <<t, imputation_model, constructed, training, steps, num_epochs,
                   frequency_stats, val_batches, valLeft, forwards, pureVars>>

\* One batch: model_output (forward), loss, zero_grad, backward, optimizer.step().
on_training_loop ==
    /\ pc = "idle"
    /\ optimizer.built
    /\ forwards < MaxForward
    /\ LET m == Forward(t, imputation_model, constructed)
       IN  /\ imputation_model' = m.imputation_model
           /\ constructed' = m.constructed
           /\ last' = [NoLast EXCEPT !.op = "on_training_loop", !.ran = TRUE,
                                     !.built = m.built, !.used = m.used,
                                     !.modeBefore = training, !.stepsBefore = steps]
    /\ steps' = steps + 1
    /\ forwards' = forwards + 1
    /\ UNCHANGED <<t, training, optimizer, epoch, num_epochs, frequency_stats,
                   val_batches, pc, valLeft, pureVars>>

\* The driver (Trainer.train, outside this file) after on_epoch_end returns: the
\* next epoch, up to and including epoch == num_epochs, then training is over.
NextEpoch ==
    /\ pc' = IF epoch < num_epochs THEN "idle" ELSE "done"
    /\ epoch' = IF epoch < num_epochs THEN epoch + 1 ELSE epoch

RunsValidationMut(e, f, n) == (e % f = 0) \/ e = 0
\* The condition of on_epoch_end.
RunsValidation(e, f, n) == (e % f = 0) \/ e = 0 \/ e = n

\* on_epoch_end, entered: either the condition fails and the hook returns, or
\* model.eval() and the validation loop starts.
on_epoch_end_enter ==
    /\ pc = "idle"
    /\ forwards + val_batches <= MaxForward
    /\ IF RunsValidation(epoch, frequency_stats, num_epochs)
       THEN /\ training' = FALSE
            /\ imputation_model' = SetMode(imputation_model, FALSE)
            /\ pc' = "validate"
            /\ valLeft' = val_batches
            /\ last' = [NoLast EXCEPT !.op = "on_epoch_end", !.ran = TRUE,
                                      !.epoch = epoch, !.modeBefore = training,
                                      !.stepsBefore = steps]
            /\ UNCHANGED epoch
       ELSE /\ last' = [NoLast EXCEPT !.op = "on_epoch_end", !.ran = FALSE,
                                      !.epoch = epoch, !.modeBefore = training,
                                      !.stepsBefore = steps, !.outcome = "returned"]
            /\ NextEpoch
            /\ UNCHANGED <<training, imputation_model, valLeft>>
    /\ UNCHANGED <<t, constructed, optimizer, steps, num_epochs, frequency_stats,
                   val_batches, forwards, pureVars>>

\* One batch of the validation loop: model_output (forward) and loss.
on_epoch_end_batch ==
    /\ pc = "validate"
    /\ valLeft > 0
    /\ LET m == Forward(t, imputation_model, constructed)
       IN  /\ imputation_model' = m.imputation_model
           /\ constructed' = m.constructed
           /\ last' = [last EXCEPT !.built = m.built, !.used = m.used]
    /\ valLeft' = valLeft - 1
    /\ forwards' = forwards + 1
    /\ UNCHANGED <<t, training, optimizer, steps, epoch, num_epochs, frequency_stats,
                   val_batches, pc, pureVars>>

\* The loop is over: the mean is printed, model.train(), and the driver moves to
\* the next epoch.
on_epoch_end_exit ==
    /\ pc = "validate"
    /\ valLeft = 0
    /\ training' = TRUE
    /\ imputation_model' = SetMode(imputation_model, TRUE)
    /\ last' = [last EXCEPT !.outcome = "returned"]
    /\ NextEpoch
    /\ UNCHANGED <<t, constructed, optimizer, steps, num_epochs, frequency_stats,
                   val_batches, valLeft, forwards, pureVars>>

\* x.detach() exists on a tensor, not on a Python list.
HasDetach(x) == x.kind = "tensor"

\* predict, after the model call: output_layer.detach(), then one detach per
\* latent, then batch_removal_layer.detach().
PredictOutcome(r) ==
    IF ~HasDetach(r.output_layer) THEN "AttributeError"
    ELSE IF ~HasDetach(r.batch_removal_layer) THEN "AttributeError"
    ELSE "returned"

predict ==
    /\ pc \in {"new", "idle", "done"}
    /\ forwards < MaxForward
    /\ LET m == Forward(t, imputation_model, constructed)
           r == ForwardResult(m)
       IN  /\ imputation_model' = m.imputation_model
           /\ constructed' = m.constructed
           /\ last' = [NoLast EXCEPT !.op = "predict", !.ran = TRUE,
                                     !.built = m.built, !.used = m.used,
                                     !.outcome = PredictOutcome(r),
                                     !.latents = r.latent_layer.len,
                                     !.modeBefore = training, !.stepsBefore = steps]
    /\ forwards' = forwards + 1
    /\ UNCHANGED <<t, training, optimizer, steps, epoch, num_epochs, frequency_stats,
                   val_batches, pc, valLeft, pureVars>>

Next ==
    \/ on_training_begin
    \/ on_training_loop
    \/ on_epoch_end_enter
    \/ on_epoch_end_batch
    \/ on_epoch_end_exit
    \/ predict

Spec == Init /\ [][Next]_vars

(***************************************************************************)
(* The batch indicator: scScopeTrainer.__init__ and predict                *)
(***************************************************************************)
MaxCells == 3
MaxLabel == 3

LabelSeqs == UNION { [1..n -> 0..MaxLabel] : n \in 1..MaxCells }

\* np.unique(batch_data)
Unique(labels) == { labels[r] : r \in DOMAIN labels }

\* numpy's reading of an index along an axis of size k: a negative index counts
\* from the end; -1 here stands for an index out of range (IndexError).
ColumnOf(idx, k) ==
    IF 0 <= idx /\ idx < k THEN idx
    ELSE IF -k <= idx /\ idx < 0 THEN idx + k
    ELSE -1

\* one_hot = np.zeros((n, k)); one_hot[:, labels.reshape((1, -1)) - 1] = 1 when
\* k > 1, else np.ones_like(labels). The index array selects columns, and the
\* slice `:` selects every row.
OneHot(labels, k) ==
    IF k > 1
    THEN LET cols == { ColumnOf(labels[j] - 1, k) : j \in DOMAIN labels }
         IN  IF -1 \in cols
             THEN [raised |-> "IndexError", m |-> <<>>]
             ELSE [raised |-> "none",
                   m |-> [r \in DOMAIN labels |->
                            [c \in 0..(k - 1) |-> IF c \in cols THEN 1 ELSE 0]]]
    ELSE [raised |-> "none", m |-> [r \in DOMAIN labels |-> [c \in 0..0 |-> 1]]]

\* gene_dataset.num_batches: the number of distinct labels of the dataset.
NumBatches(labels) == Cardinality(Unique(labels))

InitOneHot ==
    /\ Parked
    /\ fn = "none"
    /\ args \in { [batch_indices |-> l] : l \in LabelSeqs }
    /\ out = <<>>

\* The constructor, lines 93-97.
trainer_init_one_hot ==
    /\ fn = "none"
    /\ fn' = "__init__"
    /\ out' = OneHot(args.batch_indices, NumBatches(args.batch_indices))
    /\ UNCHANGED <<args, lifeVars>>

\* predict, lines 154-158.
predict_one_hot ==
    /\ fn = "none"
    /\ fn' = "predict"
    /\ out' = OneHot(args.batch_indices, Cardinality(Unique(args.batch_indices)))
    /\ UNCHANGED <<args, lifeVars>>

NextOneHot ==
    \/ trainer_init_one_hot
    \/ predict_one_hot

SpecOneHot == InitOneHot /\ [][NextOneHot]_vars

(***************************************************************************)
(* Tensors over the genes                                                  *)
(***************************************************************************)
MaxVal == 1
MaxCorr == 1
MaxRounds == 2

\* The columns of the expression matrix; one row (one cell) is modelled.
Genes == {1, 2}

\* torch.sign
Sign(x) == IF x > 0 THEN 1 ELSE IF x < 0 THEN -1 ELSE 0

\* F.relu
Relu(x) == IF x > 0 THEN x ELSE 0

(***************************************************************************)
(* The imputation merge of forward, lines 66-68                            *)
(***************************************************************************)
MergeMut(input, imputed) == [g \in Genes |-> (1 + Sign(input[g])) * imputed[g]]
\* imputed = torch.mul(1 - torch.sign(self.input), imputed)
Merge(input, imputed) == [g \in Genes |-> (1 - Sign(input[g])) * imputed[g]]

\* x = F.relu(imputed + self.input - self.batch_effect_removal_layer)
Residual(input, imputed, batch) ==
    [g \in Genes |-> Relu(imputed[g] + input[g] - batch[g])]

InitMerge ==
    /\ Parked
    /\ fn = "none"
    /\ args \in [input : [Genes -> (-MaxVal)..MaxVal],
                 imputed : [Genes -> (-MaxVal)..MaxVal],
                 batch : [Genes -> 0..MaxCorr]]
    /\ out = <<>>

\* A round i >= 1 of forward, from the imputation model's result to the input of
\* the encoder.
merge_round ==
    /\ fn = "none"
    /\ \E i \in 1..(MaxRounds - 1) :
          LET merged == Merge(args.input, args.imputed)
          IN  /\ fn' = "forward"
              /\ out' = [i |-> i, imputed |-> merged,
                         x |-> Residual(args.input, merged, args.batch)]
    /\ UNCHANGED <<args, lifeVars>>

NextMerge == merge_round

SpecMerge == InitMerge /\ [][NextMerge]_vars

(***************************************************************************)
(* scScopeTrainer.loss                                                     *)
(***************************************************************************)
\* A loss value, exactly: a finite sum of terms sqrt(n)/sqrt(d) (a bag of the
\* pairs, the empty bag being 0), or the inf or nan a zero denominator gives.
Fin(terms) == [kind |-> "fin", terms |-> terms]
Zero == Fin(EmptyBag)
Inf == [kind |-> "inf", terms |-> EmptyBag]
NaN == [kind |-> "nan", terms |-> EmptyBag]

\* torch.norm(a) / torch.norm(b), given the two sums of squares.
Quot(n, d) ==
    IF d = 0 THEN (IF n = 0 THEN NaN ELSE Inf)
    ELSE IF n = 0 THEN Zero
    ELSE Fin(SetToBag({[n |-> n, d |-> d]}))

\* Floating-point addition of two loss values.
Plus(a, b) ==
    IF a.kind = "nan" \/ b.kind = "nan" THEN NaN
    ELSE IF a.kind = "inf" \/ b.kind = "inf" THEN Inf
    ELSE Fin(a.terms (+) b.terms)

RECURSIVE SumSq(_, _)
SumSq(v, S) ==
    IF S = {} THEN 0
    ELSE LET g == CHOOSE h \in S : TRUE
         IN  v[g] * v[g] + SumSq(v, S \ {g})
\* The square of torch.norm(v)
NormSq(v) == SumSq(v, Genes)

ValMaskShared(use_mask, corrected) == [g \in Genes |-> Sign(corrected[g] + 1)]
ValMaskShift(use_mask, corrected) ==
    [g \in Genes |-> IF use_mask THEN Sign(corrected[g]) ELSE Sign(corrected[g] - 1)]
\* val_mask, lines 136-139
ValMask(use_mask, corrected) ==
    [g \in Genes |-> IF use_mask THEN Sign(corrected[g]) ELSE Sign(corrected[g] + 1)]

\* One round's term, lines 144-145 and 147-148.
RoundLoss(val_mask, out_layer, input_d_corrected, input_d) ==
    Quot(NormSq([g \in Genes |-> val_mask[g] * out_layer[g]
                                 - val_mask[g] * input_d_corrected[g]]),
         NormSq([g \in Genes |-> val_mask[g] * input_d[g]]))

AccumulateMut(i, loss_value, term) == term
\* `loss_value = ...` in round 0, `loss_value += ...` after it.
Accumulate(i, loss_value, term) == IF i = 0 THEN term ELSE Plus(loss_value, term)

\* The loop `for i in range(len(output_layer_list))`, from round i on.
RECURSIVE LossRounds(_, _, _, _, _, _)
LossRounds(i, output_layer_list, val_mask, input_d_corrected, input_d, loss_value) ==
    IF i >= Len(output_layer_list) THEN loss_value
    ELSE LossRounds(i + 1, output_layer_list, val_mask, input_d_corrected, input_d,
                    Accumulate(i, loss_value,
                               RoundLoss(val_mask, output_layer_list[i + 1],
                                         input_d_corrected, input_d)))

Loss(output_layer_list, input_d, use_mask, batch_effect_removal_layer) ==
    LET input_d_corrected == [g \in Genes |-> input_d[g] - batch_effect_removal_layer[g]]
        val_mask == ValMask(use_mask, input_d_corrected)
    IN  [called |-> TRUE,
         val_mask |-> val_mask,
         loss_value |-> LossRounds(0, output_layer_list, val_mask, input_d_corrected,
                                   input_d, Zero)]

NotCalled == [called |-> FALSE, val_mask |-> [g \in Genes |-> 0], loss_value |-> Zero]

InitLoss ==
    /\ Parked
    /\ fn = "none"
    /\ args \in [output_layer_list :
                     UNION { [1..n -> [Genes -> 0..MaxVal]] : n \in 1..MaxRounds },
                 input_d : [Genes -> 0..MaxVal],
                 batch_effect_removal_layer : [Genes -> (-MaxCorr)..MaxCorr]]
    /\ out = [um \in BOOLEAN |-> NotCalled]

\* loss() on the same outputs, input and batch correction, in either masking mode.
loss ==
    /\ \E use_mask \in BOOLEAN :
          /\ ~out[use_mask].called
          /\ out' = [out EXCEPT ![use_mask] =
                        Loss(args.output_layer_list, args.input_d, use_mask,
                             args.batch_effect_removal_layer)]
    /\ fn' = "loss"
    /\ UNCHANGED <<args, lifeVars>>

NextLoss == loss

SpecLoss == InitLoss /\ [][NextLoss]_vars

(***************************************************************************)
(* Properties                                                              *)
(***************************************************************************)

\* C1 (as claimed): with t >= 2 the imputation subnetwork is constructed exactly
\* once on a model instance: at most one construction ever happens, and every
\* round of every forward call uses that first instance.
C1_ConstructedExactlyOnce ==
    t >= 2 =>
        /\ constructed <= 1
        /\ \A k \in 1..Len(last.used) : last.used[k].id = 1

\* C2 (as claimed): after on_training_begin and any on_training_loop steps, the
\* parameters of the imputation subnetwork that forward used are among the
\* parameters the optimizer step updates.
C2_OptimizerCoversImputation ==
    (t >= 2 /\ last.op = "on_training_loop") =>
        \A k \in 1..Len(last.used) :
            Param("imputation_model", last.used[k].id) \in optimizer.params

\* C3 (as claimed): with more than one distinct label, labels being 1..k, the
\* indicator is one-hot: row r holds 1 at column label(r) - 1 and 0 elsewhere.
C3_IndicatorIsOneHot ==
    LET labels == args.batch_indices
        k == Cardinality(Unique(labels))
    IN  (fn \in {"__init__", "predict"} /\ k > 1 /\ Unique(labels) = 1..k) =>
            /\ out.raised = "none"
            /\ \A r \in DOMAIN labels : \A c \in 0..(k - 1) :
                   out.m[r][c] = (IF c = labels[r] - 1 THEN 1 ELSE 0)

\* C4 (as claimed): predict completes without raising for any t >= 1 and returns
\* the output, one latent array per round, and the batch correction.
C4_PredictReturns ==
    last.op = "predict" => (last.outcome = "returned" /\ last.latents = t)

Corrected(g) == args.input_d[g] - args.batch_effect_removal_layer[g]

\* C6 (as claimed): with masking enabled the mask is binary: 1 where the
\* batch-corrected input is positive, 0 where it is zero or negative.
C6_MaskBinary ==
    out[TRUE].called =>
        \A g \in Genes :
            out[TRUE].val_mask[g] = (IF Corrected(g) > 0 THEN 1 ELSE 0)

\* C6 (amended): with masking enabled the mask is the sign of the batch-corrected
\* input: 1 where it is positive, 0 where it is zero, -1 where it is negative.
C6_MaskIsSign ==
    out[TRUE].called =>
        \A g \in Genes :
            /\ Corrected(g) > 0 => out[TRUE].val_mask[g] = 1
            /\ Corrected(g) = 0 => out[TRUE].val_mask[g] = 0
            /\ Corrected(g) < 0 => out[TRUE].val_mask[g] = -1

C6_Witness ==
    /\ out[TRUE].called
    /\ \E g \in Genes : Corrected(g) < 0
    /\ \E g \in Genes : Corrected(g) > 0

HasZeroEntry == \E g \in Genes : args.input_d[g] = 0

\* C7 (as claimed): for an input with a zero entry, every entry selected (mask
\* nonzero) with masking enabled is selected with masking disabled.
C7_DisabledSelectsSuperset ==
    (out[TRUE].called /\ out[FALSE].called /\ HasZeroEntry) =>
        \A g \in Genes :
            out[TRUE].val_mask[g] # 0 => out[FALSE].val_mask[g] # 0

\* C7 (amended): for an input with a zero entry, every entry whose
\* batch-corrected value is not -1 and that is selected with masking enabled is
\* selected with masking disabled.
C7_DisabledSelectsSupersetOffMinusOne ==
    (out[TRUE].called /\ out[FALSE].called /\ HasZeroEntry) =>
        \A g \in Genes :
            (Corrected(g) # -1 /\ out[TRUE].val_mask[g] # 0)
                => out[FALSE].val_mask[g] # 0

C7_Witness ==
    /\ out[TRUE].called /\ out[FALSE].called /\ HasZeroEntry
    /\ \E g \in Genes : out[TRUE].val_mask[g] # 0 /\ Corrected(g) # -1
    /\ \E g \in Genes : out[TRUE].val_mask[g] = 0 /\ out[FALSE].val_mask[g] # 0

\* Round k's normalized residual norm under the mask the call computed.
Contribution(um, k) ==
    RoundLoss(out[um].val_mask, args.output_layer_list[k],
              [g \in Genes |-> Corrected(g)], args.input_d)

RECURSIVE SumOfContributions(_, _)
SumOfContributions(um, k) ==
    IF k = 0 THEN Zero
    ELSE Plus(Contribution(um, k), SumOfContributions(um, k - 1))

\* C8: the loss returned is the sum of the t per-round contributions; with t = 2
\* and a round-2 contribution of 0 it is round 1's contribution.
C8_LossIsSumOfRounds ==
    \A um \in BOOLEAN :
        out[um].called =>
            LET n == Len(args.output_layer_list)
            IN  /\ out[um].loss_value = SumOfContributions(um, n)
                /\ (n = 2 /\ Contribution(um, 2) = Zero)
                       => out[um].loss_value = Contribution(um, 1)

C8_Witness ==
    /\ out[TRUE].called
    /\ Len(args.output_layer_list) = 2
    /\ Contribution(TRUE, 2) = Zero
    /\ Contribution(TRUE, 1).kind = "fin"
    /\ Contribution(TRUE, 1) # Zero

\* C9: with t = 1 no imputation subnetwork is ever constructed, and the model's
\* parameters stay those it had after construction.
C9_NoImputationWhenSingleRound ==
    t = 1 =>
        /\ ~imputation_model.present
        /\ constructed = 0
        /\ Parameters(imputation_model) = BaseParameters

C9_Witness ==
    /\ t = 1
    /\ forwards >= 2
    /\ last.op = "predict"
    /\ optimizer.built

====
